---- MODULE Spec2Model ----
(***************************************************************************)
(* Model of apply-green-tint.py: a script that loads the icon at icon_path *)
(* as RGBA, replaces the three colour channels by the constant 08CB00,     *)
(* keeps the alpha channel, and saves the result to icon_path (PNG) and to *)
(* ico_path (ICO).  The imaging calls (open, convert, split, new, merge,   *)
(* save) are modelled by what the imaging library does for them.           *)
(***************************************************************************)
EXTENDS Integers, Sequences, FiniteSets, TLC

VARIABLES
    icon_file,   \* content of the file at icon_path
    ico_file,    \* content of the file at ico_path
    img,         \* line 6
    r, g, b, a,  \* line 9
    new_r, new_g, new_b,  \* lines 16-18
    result,      \* line 21
    stdout,      \* the lines printed by the current run
    pc,          \* position of the current run in the script
    failed,      \* the step whose exception ended the current run
    runs,        \* how many times the script has been started
    start_icon,  \* icon_file when the current run started
    start_ico,   \* ico_file when the current run started
    prev_out     \* icon_file left by the previous run, when it finished

vars == <<icon_file, ico_file, img, r, g, b, a, new_r, new_g, new_b, result,
          stdout, pc, failed, runs, start_icon, start_ico, prev_out>>

----------------------------------------------------------------------------
(* Bounds of the model. *)

\* the script is started at most this many times
MaxRuns == 2
\* images of up to this many pixels are enumerated with every pixel content
MaxSmall == 2

----------------------------------------------------------------------------
(* Program constants. *)

target_r == 8
target_g == 203
target_b == 0

\* alpha given to a pixel without transparency by convert('RGBA')
Opaque == 255

\* sides of the square frames the ICO encoder writes by default
IcoSizes == {16, 24, 32, 48, 64, 128, 256}

\* the two lines printed (lines 25 and 30), without their leading check mark
Line1 == "Icon PNG updated with green color (08CB00) - transparency preserved"
Line2 == "Icon converted to ICO format"

----------------------------------------------------------------------------
(* Images, planes and files. *)

Pos(w, h) == (0 .. (w - 1)) \X (0 .. (h - 1))

None == [mode |-> "none"]
Absent == [kind |-> "absent"]
Corrupt == [kind |-> "corrupt"]
NoKey == <<>>

Abs(n) == IF n < 0 THEN -n ELSE n

\* Image.open on a file: the decoded image, or None when open raises
\* (the file is missing or is not a decodable image).  An ICO decodes to its
\* largest frame.
Largest(frames) ==
    CHOOSE f \in frames : \A o \in frames : o.w * o.h <= f.w * f.h

Open(file) ==
    CASE file.kind = "raster" ->
            [mode |-> file.mode, w |-> file.w, h |-> file.h,
             px |-> file.px, key |-> file.key]
      [] file.kind = "ico" /\ file.frames # {} -> Largest(file.frames)
      [] OTHER -> None

\* convert('RGBA') giving every new alpha band the value 0
ConvertTransparent(im) ==
    IF im.mode = "RGBA"
    THEN [mode |-> "RGBA", w |-> im.w, h |-> im.h, px |-> im.px, key |-> NoKey]
    ELSE [mode |-> "RGBA", w |-> im.w, h |-> im.h,
          px |-> [p \in Pos(im.w, im.h) |->
                    [R |-> im.px[p].R, G |-> im.px[p].G, B |-> im.px[p].B,
                     A |-> 0]],
          key |-> NoKey]

\* convert('RGBA'): an RGBA image is copied; an RGB image gets alpha 255,
\* except that the pixels of the file's transparent colour (tRNS) get alpha 0.
ConvertRGBA(im) ==
    IF im.mode = "RGBA"
    THEN [mode |-> "RGBA", w |-> im.w, h |-> im.h, px |-> im.px, key |-> NoKey]
    ELSE [mode |-> "RGBA", w |-> im.w, h |-> im.h,
          px |-> [p \in Pos(im.w, im.h) |->
                    [R |-> im.px[p].R, G |-> im.px[p].G, B |-> im.px[p].B,
                     A |-> IF im.key # NoKey
                              /\ im.key = <<im.px[p].R, im.px[p].G, im.px[p].B>>
                           THEN 0 ELSE Opaque]],
          key |-> NoKey]

\* split() handing out the first band for every band
BandFirst(im, c) ==
    [w |-> im.w, h |-> im.h, px |-> [p \in Pos(im.w, im.h) |-> im.px[p].R]]

\* img.split(): one 'L' plane per band
Band(im, c) ==
    [w |-> im.w, h |-> im.h,
     px |-> [p \in Pos(im.w, im.h) |->
               CASE c = "R" -> im.px[p].R
                 [] c = "G" -> im.px[p].G
                 [] c = "B" -> im.px[p].B
                 [] c = "A" -> im.px[p].A]]

\* Image.new without its colour argument: a black plane
NewLBlack(w, h, color) == [w |-> w, h |-> h, px |-> [p \in Pos(w, h) |-> 0]]

\* Image.new with the size given as (height, width)
NewLTransposed(w, h, color) ==
    [w |-> h, h |-> w, px |-> [p \in Pos(h, w) |-> color]]

\* Image.new('L', size, color)
NewL(w, h, color) == [w |-> w, h |-> h, px |-> [p \in Pos(w, h) |-> color]]

\* Image.merge('RGBA', bands): raises unless the bands have one size
SameSize(p1, p2) == p1.w = p2.w /\ p1.h = p2.h

Merge(pr, pg, pb, pa) ==
    IF SameSize(pr, pg) /\ SameSize(pr, pb) /\ SameSize(pr, pa)
    THEN [mode |-> "RGBA", w |-> pr.w, h |-> pr.h,
          px |-> [p \in Pos(pr.w, pr.h) |->
                    [R |-> pr.px[p], G |-> pg.px[p], B |-> pb.px[p],
                     A |-> pa.px[p]]],
          key |-> NoKey]
    ELSE None

\* lines 16-18: the three planes, of the size of the loaded image
ChanR(im) == NewL(im.w, im.h, target_r)
\* the green plane taken from the image, keeping its luminance
ChanGLuminance(im) == Band(im, "G")
ChanG(im) == NewL(im.w, im.h, target_g)
ChanB(im) == NewL(im.w, im.h, target_b)

\* lines 9-21 as one function of the converted image
Recolor(im) == Merge(ChanR(im), ChanG(im), ChanB(im), Band(im, "A"))

\* result.save(icon_path): PNG is lossless and keeps the mode
EncodePNG(im) ==
    [kind |-> "raster", mode |-> im.mode, w |-> im.w, h |-> im.h,
     px |-> im.px, key |-> NoKey]

\* Image.thumbnail's target size for an image of w x h asked to fit s x s:
\* the aspect ratio is kept, the free side rounded to the nearer ratio
RoundAspect(lo, hi, keyLo, keyHi) ==
    LET n == IF keyLo <= keyHi THEN lo ELSE hi
    IN  IF n < 1 THEN 1 ELSE n

ThumbSize(w, h, s) ==
    IF s >= w /\ s >= h THEN <<w, h>>
    ELSE IF h >= w
    THEN LET lo == (s * w) \div h
             hi == IF (s * w) % h = 0 THEN lo ELSE lo + 1
         IN  <<RoundAspect(lo, hi, Abs(w * s - lo * h), Abs(w * s - hi * h)), s>>
    ELSE LET lo == (s * h) \div w
             hi == IF (s * h) % w = 0 THEN lo ELSE lo + 1
         IN  <<s, RoundAspect(lo, hi,
                              IF lo = 0 THEN 0 ELSE Abs(w * lo - s * h) * hi,
                              Abs(w * hi - s * h) * lo)>>

\* the resized frame: its size is exact; its pixels stand for the filter's
\* output by the nearest source pixel (RGB of a uniform image stays uniform)
Resample(im, size) ==
    [mode |-> im.mode, w |-> size[1], h |-> size[2],
     px |-> [p \in Pos(size[1], size[2]) |->
               im.px[<<(p[1] * im.w) \div size[1], (p[2] * im.h) \div size[2]>>]],
     key |-> NoKey]

\* the frames the ICO encoder writes: one per default size that fits in the
\* image; the image itself when it has that size, else a thumbnail of it
IcoFrame(im, s) ==
    IF im.w = s /\ im.h = s THEN im ELSE Resample(im, ThumbSize(im.w, im.h, s))

\* the encoder leaving out the size equal to the image's
IcoFramesStrict(im) ==
    {IcoFrame(im, s) : s \in {t \in IcoSizes : t < im.w /\ t < im.h}}

IcoFrames(im) ==
    {IcoFrame(im, s) : s \in {t \in IcoSizes : t <= im.w /\ t <= im.h}}

\* result.save(ico_path)
EncodeICO(im) == [kind |-> "ico", frames |-> IcoFrames(im)]

----------------------------------------------------------------------------
(* The files the script may find at icon_path. *)

\* pixel values the enumerated images are built from
Colours == {<<target_r, target_g, target_b>>, <<255, 0, 0>>}
Alphas == {0, 128, Opaque}

PixelsRGBA == {[R |-> c[1], G |-> c[2], B |-> c[3], A |-> al] :
                 c \in Colours, al \in Alphas}
PixelsRGB == {[R |-> c[1], G |-> c[2], B |-> c[3]] : c \in Colours}

SmallSizes == {s \in (1 .. MaxSmall) \X (1 .. MaxSmall) : s[1] * s[2] <= MaxSmall}

SmallFiles ==
    UNION {
        {[kind |-> "raster", mode |-> "RGBA", w |-> s[1], h |-> s[2],
          px |-> f, key |-> NoKey] : f \in [Pos(s[1], s[2]) -> PixelsRGBA]}
        \cup
        {[kind |-> "raster", mode |-> "RGB", w |-> s[1], h |-> s[2],
          px |-> f, key |-> k] :
            f \in [Pos(s[1], s[2]) -> PixelsRGB], k \in {NoKey, <<255, 0, 0>>}}
        : s \in SmallSizes}

\* icon-sized images with a patterned content
Patterns == {"opaque", "checker", "mask"}

PatAlpha(pat, x, y, w, h) ==
    CASE pat = "opaque" -> Opaque
      [] pat = "checker" -> IF (x + y) % 2 = 0 THEN Opaque ELSE 0
      [] pat = "mask" ->
            IF (2 * x - w + 1) * (2 * x - w + 1)
               + (2 * y - h + 1) * (2 * y - h + 1) <= w * h
            THEN Opaque ELSE 0

IconSizes == {<<16, 16>>, <<17, 16>>, <<20, 20>>, <<24, 24>>, <<32, 32>>}

IconFiles ==
    {[kind |-> "raster", mode |-> "RGBA", w |-> s[1], h |-> s[2],
      px |-> [p \in Pos(s[1], s[2]) |->
                [R |-> (7 * p[1]) % 256, G |-> (5 * p[2]) % 256, B |-> 40,
                 A |-> PatAlpha(pat, p[1], p[2], s[1], s[2])]],
      key |-> NoKey] : s \in IconSizes, pat \in Patterns}

InputFiles == SmallFiles \cup IconFiles \cup {Absent, Corrupt}

\* what ico_path may hold before the first run
OldIco == EncodeICO(ConvertRGBA(Open(
              CHOOSE f \in IconFiles : f.w = 16 /\ f.h = 16 /\ f.px[<<1, 0>>].A = 0)))
IcoFiles == {Absent, Corrupt, OldIco}

----------------------------------------------------------------------------
(* The script. *)

Init ==
    /\ icon_file \in InputFiles
    /\ ico_file \in IcoFiles
    /\ img = None /\ r = None /\ g = None /\ b = None /\ a = None
    /\ new_r = None /\ new_g = None /\ new_b = None /\ result = None
    /\ stdout = <<>>
    /\ pc = "Start"
    /\ failed = "none"
    /\ runs = 1
    /\ start_icon = icon_file
    /\ start_ico = ico_file
    /\ prev_out = Absent

\* line 6, Image.open(icon_path).convert('RGBA') returns
Load ==
    /\ pc = "Start"
    /\ Open(icon_file) # None
    /\ img' = ConvertRGBA(Open(icon_file))
    /\ pc' = "Loaded"
    /\ UNCHANGED <<icon_file, ico_file, r, g, b, a, new_r, new_g, new_b, result,
                   stdout, failed, runs, start_icon, start_ico, prev_out>>

\* a load that leaves icon_path truncated when it fails
LoadFailsTruncates ==
    /\ pc = "Start"
    /\ \E readable \in BOOLEAN : Open(icon_file) = None \/ ~readable
    /\ icon_file' = Corrupt
    /\ pc' = "Aborted"
    /\ failed' = "load"
    /\ UNCHANGED <<ico_file, img, r, g, b, a, new_r, new_g, new_b,
                   result, stdout, runs, start_icon, start_ico, prev_out>>

\* line 6 raises: the file is missing or undecodable, or cannot be read
LoadFails ==
    /\ pc = "Start"
    /\ \E readable \in BOOLEAN : Open(icon_file) = None \/ ~readable
    /\ pc' = "Aborted"
    /\ failed' = "load"
    /\ UNCHANGED <<icon_file, ico_file, img, r, g, b, a, new_r, new_g, new_b,
                   result, stdout, runs, start_icon, start_ico, prev_out>>

\* lines 9-21: split, three constant planes, merge with the alpha plane
RecolorStep ==
    /\ pc = "Loaded"
    /\ r' = Band(img, "R") /\ g' = Band(img, "G") /\ b' = Band(img, "B")
    /\ a' = Band(img, "A")
    /\ new_r' = ChanR(img) /\ new_g' = ChanG(img) /\ new_b' = ChanB(img)
    /\ result' = Merge(new_r', new_g', new_b', a')
    /\ pc' = "Recolored"
    /\ UNCHANGED <<icon_file, ico_file, img, stdout, failed, runs, start_icon,
                   start_ico, prev_out>>

\* the PNG written without the line printed
SaveRasterSilent ==
    /\ pc = "Recolored"
    /\ icon_file' = EncodePNG(result)
    /\ pc' = "SavedRaster"
    /\ UNCHANGED <<ico_file, img, r, g, b, a, new_r, new_g, new_b, result, failed,
                   runs, start_icon, start_ico, prev_out, stdout>>

\* lines 24-25: the PNG is written over icon_path and the first line printed
SaveRaster ==
    /\ pc = "Recolored"
    /\ icon_file' = EncodePNG(result)
    /\ stdout' = Append(stdout, Line1)
    /\ pc' = "SavedRaster"
    /\ UNCHANGED <<ico_file, img, r, g, b, a, new_r, new_g, new_b, result, failed,
                   runs, start_icon, start_ico, prev_out>>

\* line 24 raises: icon_path cannot be opened for writing (left as it was) or
\* the write breaks off (left truncated)
SaveRasterFails ==
    /\ pc = "Recolored"
    /\ icon_file' \in {icon_file, Corrupt}
    /\ pc' = "Aborted"
    /\ failed' = "raster"
    /\ UNCHANGED <<ico_file, img, r, g, b, a, new_r, new_g, new_b, result, stdout,
                   runs, start_icon, start_ico, prev_out>>

\* lines 28-30: the ICO is written to ico_path and the second line printed
SaveIcon ==
    /\ pc = "SavedRaster"
    /\ ico_file' = EncodeICO(result)
    /\ stdout' = Append(stdout, Line2)
    /\ pc' = "SavedIcon"
    /\ UNCHANGED <<icon_file, img, r, g, b, a, new_r, new_g, new_b, result, failed,
                   runs, start_icon, start_ico, prev_out>>

\* a failed icon write that puts the original back at icon_path
SaveIconFailsRollback ==
    /\ pc = "SavedRaster"
    /\ ico_file' \in {ico_file, Corrupt}
    /\ icon_file' = start_icon
    /\ pc' = "Aborted"
    /\ failed' = "icon"
    /\ UNCHANGED <<img, r, g, b, a, new_r, new_g, new_b, result, stdout,
                   runs, start_icon, start_ico, prev_out>>

\* a failed icon write that is tried again
SaveIconFailsRetry ==
    /\ pc = "SavedRaster"
    /\ ico_file' \in {ico_file, Corrupt}
    /\ pc' = "SavedRaster"
    /\ failed' = "icon"
    /\ UNCHANGED <<icon_file, img, r, g, b, a, new_r, new_g, new_b, result, stdout,
                   runs, start_icon, start_ico, prev_out>>

\* line 29 raises: ico_path left as it was, or truncated
SaveIconFails ==
    /\ pc = "SavedRaster"
    /\ ico_file' \in {ico_file, Corrupt}
    /\ pc' = "Aborted"
    /\ failed' = "icon"
    /\ UNCHANGED <<icon_file, img, r, g, b, a, new_r, new_g, new_b, result, stdout,
                   runs, start_icon, start_ico, prev_out>>

\* the end of the script is reached
Finish ==
    /\ pc = "SavedIcon"
    /\ pc' = "Done"
    /\ UNCHANGED <<icon_file, ico_file, img, r, g, b, a, new_r, new_g, new_b,
                   result, stdout, failed, runs, start_icon, start_ico, prev_out>>

\* the script is started again on the files the last run left
Rerun ==
    /\ pc \in {"Done", "Aborted"}
    /\ runs < MaxRuns
    /\ runs' = runs + 1
    /\ img' = None /\ r' = None /\ g' = None /\ b' = None /\ a' = None
    /\ new_r' = None /\ new_g' = None /\ new_b' = None /\ result' = None
    /\ stdout' = <<>>
    /\ pc' = "Start"
    /\ failed' = "none"
    /\ start_icon' = icon_file
    /\ start_ico' = ico_file
    /\ prev_out' = IF pc = "Done" THEN icon_file ELSE Absent
    /\ UNCHANGED <<icon_file, ico_file>>

Step ==
    \/ Load
    \/ LoadFails
    \/ RecolorStep
    \/ SaveRaster
    \/ SaveRasterFails
    \/ SaveIcon
    \/ SaveIconFails
    \/ Finish

Next == Step \/ Rerun

Spec == Init /\ [][Next]_vars

\* the interpreter runs the script to its end or to an exception
FairSpec == Spec /\ WF_vars(Step)

----------------------------------------------------------------------------
(* Properties. *)

Written == pc \in {"SavedRaster", "SavedIcon", "Done"}
Terminal == pc \in {"Done", "Aborted"}
Input == Open(start_icon)
Output == Open(icon_file)

Green(im) ==
    \A p \in Pos(im.w, im.h) :
        im.px[p].R = target_r /\ im.px[p].G = target_g /\ im.px[p].B = target_b

C2_Idempotent ==
    (Written /\ prev_out # Absent) => Output = Open(prev_out)

C2_Witness ==
    /\ pc = "Done" /\ runs = 2 /\ prev_out # Absent
    /\ \E p \in Pos(Output.w, Output.h) : Output.px[p].A = 128

\* C3 as stated: the ICO of a successful run decodes to the size and pixels
\* of the raster the run wrote, whatever the size of the image.
C3_IcoEqualsRaster ==
    pc = "Done" => Open(ico_file) = Output

\* C3 amended: the ICO decodes to the size and pixels of the raster when the
\* image is square with a side among the encoder's sizes.
C3_IcoEqualsRasterAtIconSizes ==
    (pc = "Done" /\ result.w = result.h /\ result.w \in IcoSizes) =>
        Open(ico_file) = Output

C3_Witness ==
    /\ pc = "Done" /\ result.w = 24 /\ result.h = 24
    /\ Cardinality(ico_file.frames) = 2
    /\ \E p \in Pos(24, 24) : result.px[p].A = 0

\* C4: when the file at icon_path is missing or undecodable the run fails at
\* the load, both paths keep what they held and nothing is printed.
C4_LoadFailureWritesNothing ==
    /\ (Input = None /\ pc # "Start") => (pc = "Aborted" /\ failed = "load")
    /\ failed = "load" =>
          icon_file = start_icon /\ ico_file = start_ico /\ stdout = <<>>

C4_Witness ==
    pc = "Aborted" /\ failed = "load" /\ start_icon = Absent /\ ico_file = OldIco

\* C5 as stated: a successful run prints two lines, a failed run prints none.
C5_NoLineOnFailure ==
    /\ pc = "Done" => Len(stdout) = 2
    /\ pc = "Aborted" => stdout = <<>>

\* C5 amended: a successful run prints the two lines; a run failing at the
\* load or at the raster write prints none; a run failing at the icon write
\* has printed the first line only.
C5_LinesPrinted ==
    /\ pc = "Done" => stdout = <<Line1, Line2>>
    /\ (pc = "Aborted" /\ failed \in {"load", "raster"}) => stdout = <<>>
    /\ (pc = "Aborted" /\ failed = "icon") => stdout = <<Line1>>

C5_Witness ==
    pc = "Aborted" /\ failed = "icon" /\ Len(stdout) = 1 /\ runs = 1

\* C6: the three constant planes and the merged image have the width and
\* height of the input image.
C6_DimensionsKept ==
    pc \in {"Recolored", "SavedRaster", "SavedIcon", "Done"} =>
        /\ \A c \in {new_r, new_g, new_b} : c.w = Input.w /\ c.h = Input.h
        /\ result # None
        /\ result.w = Input.w /\ result.h = Input.h
        /\ Written => (Output.w = Input.w /\ Output.h = Input.h)

C6_Witness ==
    pc = "Done" /\ Input.w = 17 /\ Input.h = 16 /\ new_b.w = 17

\* C7 as stated: an input without alpha channel comes out with alpha 255 and
\* RGB (8, 203, 0) at every pixel.
C7_RgbInputOpaque ==
    (Written /\ Input.mode = "RGB") =>
        /\ Green(Output)
        /\ \A p \in Pos(Output.w, Output.h) : Output.px[p].A = Opaque

\* C7 amended: an input without alpha channel and without a transparent
\* colour comes out with alpha 255 and RGB (8, 203, 0) at every pixel.
C7_RgbInputWithoutKeyOpaque ==
    (Written /\ Input.mode = "RGB" /\ Input.key = NoKey) =>
        /\ Green(Output)
        /\ \A p \in Pos(Output.w, Output.h) : Output.px[p].A = Opaque

C7_Witness ==
    /\ pc = "Done" /\ Input.mode = "RGB" /\ Input.key = NoKey
    /\ \E p \in Pos(Input.w, Input.h) : Input.px[p].R = 255

\* C8: a run goes Start, Loaded, Recolored, SavedRaster, SavedIcon, Done,
\* one step at a time and never back; a failing step goes to Aborted; the
\* icon is written only from SavedRaster; every run ends Done or Aborted.
Order(s) ==
    CASE s = "Start" -> 0
      [] s = "Loaded" -> 1
      [] s = "Recolored" -> 2
      [] s = "SavedRaster" -> 3
      [] s = "SavedIcon" -> 4
      [] s = "Done" -> 5
      [] s = "Aborted" -> 6

PathStep ==
    \/ /\ runs' = runs
       /\ ~Terminal
       /\ \/ Order(pc') = Order(pc) + 1 /\ pc' # "Aborted" /\ failed' = "none"
          \/ pc' = "Aborted" /\ failed' # "none"
       /\ (ico_file' # ico_file \/ failed' = "icon") => pc = "SavedRaster"
    \/ /\ runs' = runs + 1
       /\ Terminal
       /\ pc' = "Start"

C8_SinglePath ==
    /\ [][PathStep]_vars
    /\ [](~Terminal => <>Terminal)

C8_Witness ==
    pc = "Done" /\ runs = 2 /\ prev_out = Absent

\* C9: input images of one size and one alpha plane give one result, whatever
\* their red, green and blue values.
SameAlpha(i, j) ==
    /\ i.w = j.w /\ i.h = j.h
    /\ \A p \in Pos(i.w, i.h) : i.px[p].A = j.px[p].A

C10_NoRollback ==
    failed = "icon" =>
        /\ pc = "Aborted"
        /\ icon_file = EncodePNG(result) /\ Green(Output)
        /\ ico_file \in {start_ico, Corrupt}
        /\ stdout = <<Line1>>

C10_Witness ==
    /\ failed = "icon" /\ pc = "Aborted" /\ ico_file = Corrupt
    /\ icon_file # start_icon
    /\ \E p \in Pos(Input.w, Input.h) : Input.px[p].R = 255

====
